---------------------------- MODULE Spec2Model ----------------------------
(***************************************************************************)
(* Model of the sweeping-radar controller of src/src/main.cpp: the control *)
(* loop (loop), the distance filter (getDistance), the encoder interrupt   *)
(* handler (readEncoder), the threshold update (updateDetectionLimit) and  *)
(* the telemetry handler (handleData).                                     *)
(*                                                                         *)
(* Distances are in centimetres.  A raw reading is duration * 0.0343 / 2;  *)
(* pulseIn returns duration 0 on a timeout, so a timed-out echo is the raw *)
(* reading 0.  Time is kept as the number of milliseconds elapsed since    *)
(* lastEncoderUpdate, saturated at ENCODER_DEBOUNCE (the handler only      *)
(* compares that difference with ENCODER_DEBOUNCE).                        *)
(***************************************************************************)
EXTENDS Integers, Sequences, FiniteSets

\* ----- program constants (main.cpp:23-27, 51, 411) -----
MIN_DETECTION_LIMIT == 30
MAX_DETECTION_LIMIT == 400
RANGE_INCREMENT == 5
SCAN_STEP == 5
MAX_ANGLE == 180
ENCODER_DEBOUNCE == 5

LOW == FALSE
HIGH == TRUE

\* ----- bounds of the model -----
\* encoder clicks accepted while the loop runs
MaxClicks == 3
\* length of the scripted run of filtered distances
ScriptLen == 6

\* clicks accepted by readEncoder between attachInterrupt (setup, line 312)
\* and the first call of loop(): none, four (range 50) or 74 (range 400)
SetupClicks == {0, 4, 74}

\* echo triples the sensor delivers during the sweep: a clear path, an
\* object at 45 cm, an object exactly at 50 cm, and three timed-out echoes
SweepEchoes == {<<60, 60, 60>>, <<45, 45, 45>>, <<50, 50, 50>>, <<0, 0, 0>>}
\* raw readings for the filter on its own: timeout, valid, over-range
RawReadings == {0, 11, 12, 400, 450}
AllEchoes == {<<a, b, c>> : a \in RawReadings, b \in RawReadings, c \in RawReadings}
\* an object that stays close to the sensor
NearEchoes == {<<25, 25, 25>>}
\* filtered distances a scripted run is made of
ScriptDistances == {45, 55, 60}

NoResponse == [angle |-> -1, distance |-> -1, range |-> -1]
NoSample == [angle |-> -1, range |-> -1]
NoEffects == [alert |-> <<>>, display |-> <<>>, held |-> FALSE]
NoUpdate == [before |-> -1, delta |-> 0, after |-> -1, clamped |-> FALSE, followsClamp |-> FALSE]
NoReset == [active |-> FALSE, net |-> 0, discarded |-> 0]

VARIABLES
  \* program state (main.cpp:40-50)
  currentAngle, movingForward, lastDistance, isDetecting, detectionLimit,
  encoderPos, lastEncoderPos, lastCLK,
  sinceEncoderUpdate, \* min(millis() - lastEncoderUpdate, ENCODER_DEBOUNCE)
  ledPin, buzzerPin,  \* levels of LED_PIN and BUZZER_PIN
  pc,                 \* position of the control thread inside loop()
  delta,              \* local of updateDetectionLimit
  \* observations
  readings,           \* the raw triple read by the last getDistance
  served,             \* the response sent by this iteration's handleClient
  sampleAt,           \* angle and range in force when lastDistance was measured
  effects,            \* pin writes and display updates of the last detection step
  window,             \* sampled angles of the last iterations, while nothing was detected
  everDetected,       \* some iteration had an object in range
  lastUpdate,         \* the last run of updateDetectionLimit that found a delta
  netClicks,          \* net clicks accepted by readEncoder since boot
  clicks,             \* clicks accepted since the first loop()
  disturbed,          \* a clamp or a manual reset has happened
  clkPin,             \* level of ENCODER_CLK at the latest call of readEncoder
  resetClicks,        \* after line 351 of a manual reset, until the next
                      \* updateDetectionLimit: the clicks accepted since, and the
                      \* pending clicks that line 351 threw away
  script, iter        \* scripted filtered distances and how many were delivered

progVars == <<currentAngle, movingForward, lastDistance, isDetecting, detectionLimit,
              encoderPos, lastEncoderPos, lastCLK, sinceEncoderUpdate, ledPin,
              buzzerPin, pc, delta>>
obsVars == <<readings, served, sampleAt, effects, window, everDetected, lastUpdate,
             netClicks, clicks, disturbed, clkPin, resetClicks, script, iter>>
vars == <<progVars, obsVars>>

sweepVars == <<currentAngle, movingForward, lastDistance, isDetecting, ledPin, buzzerPin>>
encoderVars == <<encoderPos, lastEncoderPos, lastCLK, sinceEncoderUpdate>>
sweepObs == <<readings, sampleAt, effects, window, everDetected>>
encoderObs == <<netClicks, clicks, clkPin, resetClicks>>
scriptVars == <<script, iter>>

\* ----- getDistance (main.cpp:54-80) -----
SwapFirst(r) == IF r[1] > r[2] THEN <<r[2], r[1], r[3]>> ELSE r
SwapLast(r) == IF r[2] > r[3] THEN <<r[1], r[3], r[2]>> ELSE r
SortReadingsNoLastPass(r) == SwapLast(SwapFirst(r))
SortReadingsNoMiddlePass(r) == SwapFirst(SwapFirst(r))
SortReadings(r) == SwapFirst(SwapLast(SwapFirst(r)))
ReplaceInvalidNoZero(d) == IF d > MAX_DETECTION_LIMIT THEN MAX_DETECTION_LIMIT ELSE d
ReplaceInvalid(d) == IF d <= 0 \/ d > MAX_DETECTION_LIMIT THEN MAX_DETECTION_LIMIT ELSE d
GetDistance(r) == ReplaceInvalid(SortReadings(r)[2])

\* ----- detection comparison and sweep (main.cpp:377, 392, 408-421) -----
InRangeStrict(d, limit) == d < limit
InRange(d, limit) == d <= limit
NextAngleForwardOnly(a, fwd) ==
  IF a + SCAN_STEP >= MAX_ANGLE THEN MAX_ANGLE ELSE a + SCAN_STEP
NextAngle(a, fwd) ==
  IF fwd THEN (IF a + SCAN_STEP >= MAX_ANGLE THEN MAX_ANGLE ELSE a + SCAN_STEP)
         ELSE (IF a - SCAN_STEP <= 0 THEN 0 ELSE a - SCAN_STEP)
NextForwardLateFlip(a, fwd) ==
  IF fwd THEN ~(a + SCAN_STEP > MAX_ANGLE) ELSE (a - SCAN_STEP < 0)
NextForward(a, fwd) ==
  IF fwd THEN ~(a + SCAN_STEP >= MAX_ANGLE) ELSE (a - SCAN_STEP <= 0)
\* the early return of line 392 keeps the angle; otherwise lines 408-421 run
AngleAfterNoHold(held, a, fwd) == NextAngle(a, fwd)
AngleAfter(held, a, fwd) == IF held THEN a ELSE NextAngle(a, fwd)
ForwardAfter(held, a, fwd) == IF held THEN fwd ELSE NextForward(a, fwd)
\* level of an alert pin after the detection step (main.cpp:379-380, 395-396)
AlertLevelNoOff(rising, falling, level) == IF rising THEN HIGH ELSE level
AlertLevel(rising, falling, level) ==
  IF rising THEN HIGH ELSE IF falling THEN LOW ELSE level

\* ----- updateDetectionLimit (main.cpp:101-115) -----
ClampedLimitNoFloor(limit) ==
  IF limit > MAX_DETECTION_LIMIT THEN MAX_DETECTION_LIMIT ELSE limit
ClampedLimit(limit) ==
  IF limit < MIN_DETECTION_LIMIT THEN MIN_DETECTION_LIMIT
  ELSE IF limit > MAX_DETECTION_LIMIT THEN MAX_DETECTION_LIMIT ELSE limit
IsClamped(limit) == limit < MIN_DETECTION_LIMIT \/ limit > MAX_DETECTION_LIMIT
RolledBackPosKeep(limit, pos, last) == pos
RolledBackPos(limit, pos, last) == IF IsClamped(limit) THEN last ELSE pos

\* ----- handleData (main.cpp:281-286) -----
HandleDataLive ==
  [angle |-> currentAngle, distance |-> lastDistance,
   range |-> detectionLimit + (encoderPos - lastEncoderPos) * RANGE_INCREMENT]
HandleData == [angle |-> currentAngle, distance |-> lastDistance, range |-> detectionLimit]

\* ----- state at the first call of loop() (main.cpp:40-50, setup 289-340) -----
InitProgram ==
  /\ currentAngle = 0
  /\ movingForward = TRUE
  /\ lastDistance = 0
  /\ isDetecting = FALSE
  /\ detectionLimit = MIN_DETECTION_LIMIT
  /\ encoderPos \in SetupClicks
  /\ lastEncoderPos = 0
  /\ lastCLK = HIGH
  /\ sinceEncoderUpdate = ENCODER_DEBOUNCE
  /\ ledPin = LOW
  /\ buzzerPin = LOW
  /\ delta = 0
  /\ readings = <<>>
  /\ served = NoResponse
  /\ sampleAt = NoSample
  /\ effects = NoEffects
  /\ window = <<>>
  /\ everDetected = FALSE
  /\ lastUpdate = NoUpdate
  /\ netClicks = encoderPos
  /\ clicks = 0
  /\ disturbed = FALSE
  /\ clkPin = HIGH
  /\ resetClicks = NoReset

Init ==
  /\ InitProgram
  /\ pc = "handleClient"
  /\ script = <<>>
  /\ iter = 0

\* ----- loop(): server.handleClient() (main.cpp:344) -----
\* at most one pending request is served; handleData runs inside this call
HandleClient(req) ==
  /\ pc = "handleClient"
  /\ served' = IF req THEN HandleData ELSE NoResponse
  /\ pc' = "readButton"
  /\ UNCHANGED <<sweepVars, detectionLimit, encoderVars, delta>>
  /\ UNCHANGED <<sweepObs, lastUpdate, encoderObs, disturbed, scriptVars>>

\* ----- loop(): the reset button, read twice (main.cpp:347-350) -----
ReadButton(sw1, sw2) ==
  /\ pc = "readButton"
  /\ served' = NoResponse
  /\ IF sw1 = LOW /\ sw2 = LOW
       THEN /\ detectionLimit' = MIN_DETECTION_LIMIT
            /\ disturbed' = TRUE
            /\ pc' = "reset351"
       ELSE /\ UNCHANGED <<detectionLimit, disturbed>>
            /\ pc' = "update102"
  /\ UNCHANGED <<sweepVars, encoderVars, delta>>
  /\ UNCHANGED <<sweepObs, lastUpdate, encoderObs, scriptVars>>

Reset351Skip ==
  /\ pc = "reset351"
  /\ resetClicks' = [active |-> TRUE, net |-> 0, discarded |-> encoderPos - lastEncoderPos]
  /\ pc' = "reset352"
  /\ UNCHANGED <<sweepVars, detectionLimit, encoderVars, delta>>
  /\ UNCHANGED <<served, sweepObs, lastUpdate, netClicks, clicks, clkPin, disturbed, scriptVars>>

\* encoderPos = 0 (main.cpp:351)
Reset351 ==
  /\ pc = "reset351"
  /\ encoderPos' = 0
  /\ resetClicks' = [active |-> TRUE, net |-> 0, discarded |-> encoderPos - lastEncoderPos]
  /\ pc' = "reset352"
  /\ UNCHANGED <<sweepVars, detectionLimit, lastEncoderPos, lastCLK, sinceEncoderUpdate, delta>>
  /\ UNCHANGED <<served, sweepObs, lastUpdate, netClicks, clicks, clkPin, disturbed, scriptVars>>

\* lastEncoderPos = 0 and the banner (main.cpp:352-359)
Reset352 ==
  /\ pc = "reset352"
  /\ lastEncoderPos' = 0
  /\ pc' = "waitRelease"
  /\ UNCHANGED <<sweepVars, detectionLimit, encoderPos, lastCLK, sinceEncoderUpdate, delta>>
  /\ UNCHANGED obsVars

\* while(digitalRead(ENCODER_SW) == LOW); (main.cpp:360)
WaitRelease(sw) ==
  /\ pc = "waitRelease"
  /\ pc' = IF sw = LOW THEN "waitRelease" ELSE "update102"
  /\ UNCHANGED <<sweepVars, detectionLimit, encoderVars, delta>>
  /\ UNCHANGED obsVars

\* ----- updateDetectionLimit (main.cpp:101-128), one step per access to
\* the accumulator shared with readEncoder -----
\* if (encoderPos != lastEncoderPos) (main.cpp:102)
Update102 ==
  /\ pc = "update102"
  /\ pc' = IF encoderPos # lastEncoderPos THEN "update103" ELSE "sample"
  /\ resetClicks' = NoReset
  /\ UNCHANGED <<sweepVars, detectionLimit, encoderVars, delta>>
  /\ UNCHANGED <<served, sweepObs, lastUpdate, netClicks, clicks, clkPin, disturbed, scriptVars>>

\* delta = encoderPos - lastEncoderPos; detectionLimit += ... (main.cpp:103-104)
Update103 ==
  /\ pc = "update103"
  /\ delta' = encoderPos - lastEncoderPos
  /\ detectionLimit' = detectionLimit + delta' * RANGE_INCREMENT
  /\ lastUpdate' = [before |-> detectionLimit, delta |-> delta', after |-> -1,
                    clamped |-> FALSE, followsClamp |-> lastUpdate.clamped]
  /\ pc' = "update107"
  /\ UNCHANGED <<sweepVars, encoderVars>>
  /\ UNCHANGED <<served, sweepObs, encoderObs, disturbed, scriptVars>>

\* the clamp and the roll-back of the accumulator (main.cpp:107-113)
Update107 ==
  /\ pc = "update107"
  /\ detectionLimit' = ClampedLimit(detectionLimit)
  /\ encoderPos' = RolledBackPos(detectionLimit, encoderPos, lastEncoderPos)
  /\ lastUpdate' = [lastUpdate EXCEPT !.clamped = IsClamped(detectionLimit),
                                      !.after = detectionLimit']
  /\ disturbed' = (disturbed \/ IsClamped(detectionLimit))
  /\ pc' = "update115"
  /\ UNCHANGED <<sweepVars, lastEncoderPos, lastCLK, sinceEncoderUpdate, delta>>
  /\ UNCHANGED <<served, sweepObs, encoderObs, scriptVars>>

\* lastEncoderPos = encoderPos and the banner (main.cpp:115-127)
Update115 ==
  /\ pc = "update115"
  /\ lastEncoderPos' = encoderPos
  /\ pc' = "sample"
  /\ UNCHANGED <<sweepVars, detectionLimit, encoderPos, lastCLK, sinceEncoderUpdate, delta>>
  /\ UNCHANGED obsVars

\* ----- loop(): lastDistance = getDistance() at currentAngle (main.cpp:368-374) -----
Sample(r) ==
  /\ pc = "sample"
  /\ readings' = r
  /\ lastDistance' = GetDistance(r)
  /\ sampleAt' = [angle |-> currentAngle, range |-> detectionLimit]
  /\ window' = IF everDetected THEN <<>>
               ELSE IF Len(window) < 3 THEN Append(window, currentAngle)
               ELSE <<window[2], window[3], currentAngle>>
  /\ pc' = "detect"
  /\ UNCHANGED <<currentAngle, movingForward, isDetecting, ledPin, buzzerPin>>
  /\ UNCHANGED <<detectionLimit, encoderVars, delta>>
  /\ UNCHANGED <<served, effects, everDetected, lastUpdate, encoderObs, disturbed>>

\* ----- loop(): detection logic and next angle (main.cpp:377-421) -----
Detect ==
  /\ pc = "detect"
  /\ LET held == InRange(lastDistance, detectionLimit)
         rising == held /\ ~isDetecting
         falling == ~held /\ isDetecting
     IN  /\ isDetecting' = IF rising THEN TRUE ELSE IF falling THEN FALSE ELSE isDetecting
         /\ ledPin' = AlertLevel(rising, falling, ledPin)
         /\ buzzerPin' = AlertLevel(rising, falling, buzzerPin)
         /\ effects' = [alert |-> IF rising THEN <<HIGH>>
                                  ELSE IF falling THEN <<LOW>> ELSE <<>>,
                        display |-> IF rising THEN <<"clear", "Object Detected!">>
                                    ELSE IF held THEN <<>>
                                    ELSE IF falling THEN <<"clear", "Scan">>
                                    ELSE <<"Scan">>,
                        held |-> held]
         /\ currentAngle' = AngleAfter(held, currentAngle, movingForward)
         /\ movingForward' = ForwardAfter(held, currentAngle, movingForward)
         /\ everDetected' = (everDetected \/ held)
         /\ window' = IF everDetected' THEN <<>> ELSE window
  /\ pc' = "handleClient"
  /\ UNCHANGED <<lastDistance, detectionLimit, encoderVars, delta>>
  /\ UNCHANGED <<readings, served, sampleAt, lastUpdate, encoderObs, disturbed, scriptVars>>

ReadEncoderNoDebounce(clkState, dtState) ==
  /\ clkPin' = clkState
  /\ IF clkState # lastCLK /\ clkState = LOW
       THEN /\ clicks < MaxClicks
            /\ encoderPos' = IF dtState # clkState THEN encoderPos + 1 ELSE encoderPos - 1
            /\ netClicks' = netClicks + (encoderPos' - encoderPos)
            /\ clicks' = clicks + 1
            /\ resetClicks' = IF resetClicks.active
                                THEN [resetClicks EXCEPT !.net = @ + (encoderPos' - encoderPos)]
                                ELSE resetClicks
            /\ sinceEncoderUpdate' = 0
            /\ lastCLK' = clkState
            /\ UNCHANGED lastEncoderPos
       ELSE /\ lastCLK' = clkState
            /\ UNCHANGED <<encoderPos, lastEncoderPos, sinceEncoderUpdate>>
            /\ UNCHANGED <<netClicks, clicks, resetClicks>>
  /\ UNCHANGED <<sweepVars, detectionLimit, pc, delta>>
  /\ UNCHANGED <<served, sweepObs, lastUpdate, disturbed, scriptVars>>

\* ----- readEncoder, the interrupt handler of ENCODER_CLK (main.cpp:83-98) -----
\* clkState and dtState are the levels the two digitalRead calls return
ReadEncoder(clkState, dtState) ==
  /\ clkPin' = clkState
  /\ IF sinceEncoderUpdate < ENCODER_DEBOUNCE
       THEN UNCHANGED <<encoderVars, netClicks, clicks, resetClicks>>
       ELSE IF clkState # lastCLK /\ clkState = LOW
         THEN /\ clicks < MaxClicks
              /\ encoderPos' = IF dtState # clkState THEN encoderPos + 1 ELSE encoderPos - 1
              /\ netClicks' = netClicks + (encoderPos' - encoderPos)
              /\ clicks' = clicks + 1
              /\ resetClicks' = IF resetClicks.active
                                  THEN [resetClicks EXCEPT !.net = @ + (encoderPos' - encoderPos)]
                                  ELSE resetClicks
              /\ sinceEncoderUpdate' = 0
              /\ lastCLK' = clkState
              /\ UNCHANGED lastEncoderPos
         ELSE /\ lastCLK' = clkState
              /\ UNCHANGED <<encoderPos, lastEncoderPos, sinceEncoderUpdate>>
              /\ UNCHANGED <<netClicks, clicks, resetClicks>>
  /\ UNCHANGED <<sweepVars, detectionLimit, pc, delta>>
  /\ UNCHANGED <<served, sweepObs, lastUpdate, disturbed, scriptVars>>

\* one millisecond passes
Tick ==
  /\ sinceEncoderUpdate < ENCODER_DEBOUNCE
  /\ sinceEncoderUpdate' = sinceEncoderUpdate + 1
  /\ UNCHANGED <<sweepVars, detectionLimit, encoderPos, lastEncoderPos, lastCLK, pc, delta>>
  /\ UNCHANGED obsVars

\* ----- the sweep: the loop with the encoder at rest after setup -----
SweepSample == \E r \in SweepEchoes : Sample(r) /\ UNCHANGED scriptVars

Next ==
  \/ \E req \in BOOLEAN : HandleClient(req)
  \/ \E sw1 \in BOOLEAN, sw2 \in BOOLEAN : ReadButton(sw1, sw2)
  \/ Reset351
  \/ Reset352
  \/ \E sw \in BOOLEAN : WaitRelease(sw)
  \/ Update102
  \/ Update103
  \/ Update107
  \/ Update115
  \/ SweepSample
  \/ Detect

Spec == Init /\ [][Next]_vars

\* ----- the sweep with a control thread that keeps running: every step of
\* loop() other than the wait for the button's release is taken once it can be -----
ControlStep ==
  \/ \E req \in BOOLEAN : HandleClient(req)
  \/ \E sw1 \in BOOLEAN, sw2 \in BOOLEAN : ReadButton(sw1, sw2)
  \/ Reset351
  \/ Reset352
  \/ Update102
  \/ Update103
  \/ Update107
  \/ Update115
  \/ SweepSample
  \/ Detect

SpecLive == Init /\ [][Next]_vars /\ WF_vars(ControlStep)

\* ----- the encoder: the handler interleaved with the loop, an object
\* staying close to the sensor -----
NearSample == \E r \in NearEchoes : Sample(r) /\ UNCHANGED scriptVars

NextEncoder ==
  \/ \E clkState \in BOOLEAN, dtState \in BOOLEAN : ReadEncoder(clkState, dtState)
  \/ Tick
  \/ \E req \in BOOLEAN : HandleClient(req)
  \/ \E sw1 \in BOOLEAN, sw2 \in BOOLEAN : ReadButton(sw1, sw2)
  \/ Reset351
  \/ Reset352
  \/ \E sw \in BOOLEAN : WaitRelease(sw)
  \/ Update102
  \/ Update103
  \/ Update107
  \/ Update115
  \/ NearSample
  \/ Detect

SpecEncoder == Init /\ [][NextEncoder]_vars

\* ----- the filter on its own: one getDistance over every raw triple -----
InitSample ==
  /\ InitProgram
  /\ encoderPos = 0
  /\ pc = "sample"
  /\ script = <<>>
  /\ iter = 0

AnySample == \E r \in AllEchoes : Sample(r) /\ UNCHANGED scriptVars

NextSample ==
  \/ AnySample
  \/ Detect

SpecSample == InitSample /\ [][NextSample]_vars

\* ----- a scripted run: range 50 after setup, the button untouched, the
\* filtered distances taken from script -----
InitScenario ==
  /\ InitProgram
  /\ encoderPos = 4
  /\ pc = "handleClient"
  /\ script \in [1..ScriptLen -> ScriptDistances]
  /\ iter = 0

ScriptedSample ==
  /\ iter < Len(script)
  /\ Sample(<<script[iter + 1], script[iter + 1], script[iter + 1]>>)
  /\ iter' = iter + 1
  /\ UNCHANGED script

NextScenario ==
  \/ \E req \in BOOLEAN : HandleClient(req)
  \/ ReadButton(HIGH, HIGH)
  \/ Update102
  \/ Update103
  \/ Update107
  \/ Update115
  \/ ScriptedSample
  \/ Detect

SpecScenario == InitScenario /\ [][NextScenario]_vars

\* ======================= properties =======================

\* C1: an iteration whose filtered distance is within the detection range
\* leaves currentAngle and movingForward as they were, and the sweep
\* position changes only in a detection step that ends Idle.
C1_SweepFrozenWhileInRange ==
  [][ /\ (pc = "detect" /\ pc' = "handleClient" /\ lastDistance <= detectionLimit)
           => (currentAngle' = currentAngle /\ movingForward' = movingForward)
      /\ (currentAngle' # currentAngle \/ movingForward' # movingForward)
           => (pc = "detect" /\ lastDistance > detectionLimit /\ ~isDetecting')
    ]_vars

\* a second consecutive in-range iteration, held at an angle the sweep had reached
C1_Witness ==
  /\ pc = "handleClient"
  /\ isDetecting
  /\ effects.held
  /\ effects.alert = <<>>
  /\ currentAngle = 10
  /\ sampleAt.angle = 10

\* C2: a telemetry response carries the angle at which its distance was
\* measured and the range of that same iteration.
C2_SnapshotConsistent ==
  (served # NoResponse /\ sampleAt # NoSample)
    => /\ served.distance = lastDistance
       /\ served.angle = sampleAt.angle
       /\ served.range = sampleAt.range

\* C3: the detection step switches the status and drives the alert outputs
\* exactly on the two edges (distance <= range while Idle, distance > range
\* while Detecting); otherwise it leaves status and outputs alone and prints
\* no detection banner; the outputs change in no other step.
C3_EdgeEffects ==
  [][ /\ (pc = "detect" /\ pc' = "handleClient") =>
           LET near == lastDistance <= detectionLimit
               banner == \E i \in 1..Len(effects'.display) :
                            effects'.display[i] = "Object Detected!"
           IN  /\ (near /\ ~isDetecting) =>
                     /\ isDetecting' /\ ledPin' = HIGH /\ buzzerPin' = HIGH
                     /\ effects'.alert = <<HIGH>> /\ banner
               /\ (~near /\ isDetecting) =>
                     /\ ~isDetecting' /\ ledPin' = LOW /\ buzzerPin' = LOW
                     /\ effects'.alert = <<LOW>> /\ ~banner
               /\ (near <=> isDetecting) =>
                     /\ isDetecting' = isDetecting
                     /\ ledPin' = ledPin /\ buzzerPin' = buzzerPin
                     /\ effects'.alert = <<>> /\ ~banner
      /\ (isDetecting' # isDetecting \/ ledPin' # ledPin \/ buzzerPin' # buzzerPin)
           => pc = "detect"
    ]_vars

\* the rising edge taken with the distance equal to the range
C3_Witness ==
  /\ pc = "handleClient"
  /\ isDetecting
  /\ lastDistance = detectionLimit
  /\ effects.alert = <<HIGH>>
  /\ ledPin = HIGH

Scenario == <<60, 60, 45, 45, 45, 55>>
ClaimedAngles == <<0, 5, 10, 10, 10, 15>>
SampledAngles == <<0, 5, 10, 10, 10, 10>>
InScenario == SubSeq(script, 1, Len(Scenario)) = Scenario /\ iter \in 1..Len(Scenario)

\* C4 as stated: with range 50 and filtered distances 60,60,45,45,45,55 the
\* six samples are taken at 0,5,10,10,10,15.
C4_ScenarioAsClaimed ==
  (InScenario /\ pc = "detect")
    => (sampleAt.range = 50 /\ sampleAt.angle = ClaimedAngles[iter])

\* C4 amended: the six samples are taken at 0,5,10,10,10,10, the angle is 15
\* once the sixth iteration has ended, and the alert outputs switch on in the
\* third iteration and off in the sixth.
C4_Scenario ==
  /\ (InScenario /\ pc = "detect")
       => (sampleAt.range = 50 /\ sampleAt.angle = SampledAngles[iter])
  /\ (InScenario /\ pc = "handleClient")
       => /\ ledPin = (iter \in 3..5) /\ buzzerPin = (iter \in 3..5)
          /\ effects.alert = (IF iter = 3 THEN <<HIGH>>
                              ELSE IF iter = 6 THEN <<LOW>> ELSE <<>>)
          /\ (iter = 6 => currentAngle = 15)

C4_Witness ==
  /\ InScenario
  /\ iter = 6
  /\ pc = "handleClient"
  /\ currentAngle = 15
  /\ ledPin = LOW

Abs(x) == IF x < 0 THEN -x ELSE x

\* C5: while nothing has been detected the sampled angles start 0, 5, step by
\* exactly SCAN_STEP, keep their direction at every interior angle and turn
\* back at 0 and at 180, so each boundary is sampled once per visit.
C5_SweepSequence ==
  (~everDetected /\ window # <<>>) =>
    LET n == Len(window)
    IN  /\ \A i \in 1..n : window[i] \in 0..MAX_ANGLE /\ window[i] % SCAN_STEP = 0
        /\ \A i \in 1..(n - 1) : Abs(window[i + 1] - window[i]) = SCAN_STEP
        /\ n < 3 => window = SubSeq(<<0, SCAN_STEP>>, 1, n)
        /\ n = 3 => IF window[2] \in {0, MAX_ANGLE}
                      THEN window[3] = window[1]
                      ELSE window[3] - window[2] = window[2] - window[1]

\* back at 0 after a full forward and backward pass
C5_Witness ==
  /\ ~everDetected
  /\ window = <<SCAN_STEP, 0, SCAN_STEP>>
  /\ pc = "detect"

\* C6: the clamp step of updateDetectionLimit puts a threshold that went
\* below MIN (above MAX) exactly on MIN (MAX) and sets the accumulator back
\* to lastEncoderPos, and leaves both alone otherwise; a single click away
\* from the bound consumed next moves the threshold one RANGE_INCREMENT off it.
C6_ClampRollback ==
  [][ /\ (pc = "update107" /\ pc' = "update115") =>
           /\ detectionLimit < MIN_DETECTION_LIMIT =>
                (detectionLimit' = MIN_DETECTION_LIMIT /\ encoderPos' = lastEncoderPos)
           /\ detectionLimit > MAX_DETECTION_LIMIT =>
                (detectionLimit' = MAX_DETECTION_LIMIT /\ encoderPos' = lastEncoderPos)
           /\ detectionLimit \in MIN_DETECTION_LIMIT..MAX_DETECTION_LIMIT =>
                (detectionLimit' = detectionLimit /\ encoderPos' = encoderPos)
      /\ (pc = "update103" /\ pc' = "update107" /\ lastUpdate.clamped
            /\ detectionLimit = lastUpdate.after) =>
           /\ (detectionLimit = MIN_DETECTION_LIMIT /\ delta' = 1) =>
                detectionLimit' = MIN_DETECTION_LIMIT + RANGE_INCREMENT
           /\ (detectionLimit = MAX_DETECTION_LIMIT /\ delta' = -1) =>
                detectionLimit' = MAX_DETECTION_LIMIT - RANGE_INCREMENT
    ]_vars

\* threshold 30 clamped by two clicks down, then one click up gives 35
C6_Witness ==
  /\ pc = "sample"
  /\ lastUpdate.followsClamp
  /\ lastUpdate.before = MIN_DETECTION_LIMIT
  /\ lastUpdate.delta = 1
  /\ detectionLimit = MIN_DETECTION_LIMIT + RANGE_INCREMENT
  /\ encoderPos = lastEncoderPos
  /\ netClicks = -1

\* C7: in a run without clamp and without manual reset, once
\* updateDetectionLimit has returned and no click is pending, the threshold
\* is its initial value plus RANGE_INCREMENT for every net accepted click.
C7_ClicksConsumedOnce ==
  (~disturbed /\ pc = "sample" /\ encoderPos = lastEncoderPos)
    => detectionLimit = MIN_DETECTION_LIMIT + RANGE_INCREMENT * netClicks

\* the middle value of a triple, by counting
MedianOf(r) ==
  CHOOSE m \in {r[1], r[2], r[3]} :
    /\ Cardinality({i \in 1..3 : r[i] <= m}) >= 2
    /\ Cardinality({i \in 1..3 : r[i] >= m}) >= 2

\* a sample whose median is no valid distance
Fault(r) == MedianOf(r) <= 0 \/ MedianOf(r) > MAX_DETECTION_LIMIT

\* C8: an iteration whose sample is a fault ends Idle with the alert outputs
\* low and the sweep not held.
C8_FaultNeverDetects ==
  (pc = "handleClient" /\ readings # <<>> /\ Fault(readings))
    => (~isDetecting /\ ledPin = LOW /\ buzzerPin = LOW /\ ~effects.held)

\* a timed-out echo (raw reading 0) taken as larger than every reading and than MAX
TimeoutAsLargest(r) ==
  [i \in 1..3 |-> IF r[i] = 0 THEN MAX_DETECTION_LIMIT + r[1] + r[2] + r[3] + 1 ELSE r[i]]

\* C9 as stated: getDistance returns the median with every timeout counted
\* as +infinity, a result above MAX replaced by MAX.
C9_MedianTimeoutInfinity ==
  (pc = "detect" /\ readings # <<>>) =>
    LET m == MedianOf(TimeoutAsLargest(readings))
    IN  lastDistance = IF m > MAX_DETECTION_LIMIT THEN MAX_DETECTION_LIMIT ELSE m

\* C9 amended: getDistance returns the median with every timeout counted as
\* 0, below every valid reading; a median that is 0 or above MAX is replaced
\* by MAX.
C9_MedianTimeoutZero ==
  (pc = "detect" /\ readings # <<>>) =>
    LET m == MedianOf(readings)
    IN  lastDistance = IF m <= 0 \/ m > MAX_DETECTION_LIMIT
                         THEN MAX_DETECTION_LIMIT ELSE m

\* one timeout beside 12 and 11: the filter returns 11
C9_Witness ==
  /\ pc = "detect"
  /\ readings = <<0, 12, 11>>
  /\ lastDistance = 11

ValidReading(x) == x > 0 /\ x <= MAX_DETECTION_LIMIT

\* C10: with two valid readings and one outlier (0 or above MAX) in any
\* order, getDistance returns one of the two valid readings.
C10_SingleOutlierSuppressed ==
  (pc = "detect" /\ readings # <<>>) =>
    \A k \in 1..3 :
      LET others == (1..3) \ {k}
      IN  (~ValidReading(readings[k]) /\ \A i \in others : ValidReading(readings[i]))
            => /\ lastDistance \in {readings[i] : i \in others}
               /\ lastDistance # readings[k]

\* an over-range echo first, then 11 and 12
C10_Witness ==
  /\ pc = "detect"
  /\ readings = <<450, 11, 12>>
  /\ lastDistance = 12

\* C11: where the detection range is read (by handleData in handleClient,
\* by the sample log and by the detection comparison) it lies in [MIN, MAX]
\* and is MIN plus a whole number of RANGE_INCREMENT.
C11_RangeQuantized ==
  /\ pc \in {"handleClient", "sample", "detect"} =>
       /\ detectionLimit \in MIN_DETECTION_LIMIT..MAX_DETECTION_LIMIT
       /\ (detectionLimit - MIN_DETECTION_LIMIT) % RANGE_INCREMENT = 0
  /\ served # NoResponse =>
       /\ served.range \in MIN_DETECTION_LIMIT..MAX_DETECTION_LIMIT
       /\ (served.range - MIN_DETECTION_LIMIT) % RANGE_INCREMENT = 0

\* the comparison reads a range that the floor has just clamped
C11_Witness ==
  /\ pc = "detect"
  /\ lastUpdate.clamped
  /\ lastUpdate.before + lastUpdate.delta * RANGE_INCREMENT < MIN_DETECTION_LIMIT
  /\ detectionLimit = MIN_DETECTION_LIMIT

\* C12: once a sample has been taken, lastDistance is greater than 0 and at
\* most MAX, whatever the three raw readings were.
C12_DistanceBounded ==
  readings # <<>> => (lastDistance > 0 /\ lastDistance <= MAX_DETECTION_LIMIT)

\* two timeouts beside a valid reading: the median 0 is replaced by MAX
C12_Witness ==
  /\ pc = "detect"
  /\ readings = <<0, 11, 0>>
  /\ lastDistance = MAX_DETECTION_LIMIT

\* C13: currentAngle is always a multiple of SCAN_STEP in [0, 180]; between
\* iterations angle 180 goes with direction backward and angle 0 with
\* direction forward; movingForward changes only in a step that brings the
\* angle to exactly 0 or 180.
C13_AngleDirection ==
  /\ [](/\ currentAngle \in 0..MAX_ANGLE
        /\ currentAngle % SCAN_STEP = 0
        /\ pc = "handleClient" =>
             /\ currentAngle = MAX_ANGLE => ~movingForward
             /\ currentAngle = 0 => movingForward)
  /\ [][movingForward' # movingForward =>
          (currentAngle' # currentAngle /\ currentAngle' \in {0, MAX_ANGLE})]_vars

\* the sweep has turned at 180 in a run that also held for an object
C13_Witness ==
  /\ pc = "handleClient"
  /\ currentAngle = MAX_ANGLE
  /\ ~movingForward
  /\ everDetected
  /\ sampleAt.angle = MAX_ANGLE - SCAN_STEP

\* C14: between iterations LED and buzzer have the same level, high exactly
\* when the status is Detecting; before the first sample both are low and the
\* status is Idle.
C14_AlertFollowsStatus ==
  pc = "handleClient" =>
    /\ ledPin = buzzerPin
    /\ (ledPin = HIGH) <=> isDetecting
    /\ sampleAt = NoSample => (ledPin = LOW /\ ~isDetecting)

\* the outputs are back low after an object has left the range
C14_Witness ==
  /\ pc = "handleClient"
  /\ effects.alert = <<LOW>>
  /\ ledPin = LOW
  /\ buzzerPin = LOW
  /\ ~isDetecting

\* C15: a request served before the first sample gets angle 0, distance 0
\* and range MIN.
C15_DefaultSnapshot ==
  (served # NoResponse /\ sampleAt = NoSample)
    => served = [angle |-> 0, distance |-> 0, range |-> MIN_DETECTION_LIMIT]

\* served in the first iteration, with clicks from setup still unconsumed
C15_Witness ==
  /\ served = [angle |-> 0, distance |-> 0, range |-> MIN_DETECTION_LIMIT]
  /\ sampleAt = NoSample
  /\ pc = "readButton"
  /\ encoderPos # lastEncoderPos

\* C16: serving a request changes nothing handleData reads and no encoder
\* state, and a step that is no step of the control thread (a call of
\* readEncoder, the passing of time) leaves the triple handleData returns
\* unchanged, so a second read before the next control-loop step returns
\* what the first one did.
C16_SnapshotIdempotent ==
  [][ /\ (pc = "handleClient" /\ pc' = "readButton") =>
           /\ UNCHANGED <<currentAngle, lastDistance, detectionLimit, isDetecting>>
           /\ UNCHANGED <<encoderPos, lastEncoderPos, lastCLK, sinceEncoderUpdate>>
           /\ served' \in {NoResponse, HandleData'}
      /\ pc' = pc => HandleData' = HandleData
    ]_vars

\* a response is out, the handler has accepted a click since, and a second
\* read would return the same triple
C16_Witness ==
  /\ pc = "readButton"
  /\ served # NoResponse
  /\ served = HandleData
  /\ sinceEncoderUpdate = 0
  /\ encoderPos # lastEncoderPos

\* C17: a call of readEncoder inside the debounce window changes neither
\* encoderPos nor the timestamp; the timestamp is written only together with
\* a change of encoderPos; the handler changes encoderPos by exactly one, and
\* only when ENCODER_DEBOUNCE ms have passed since the last accepted click.
C17_Debounce ==
  [][ pc' = pc =>
        /\ sinceEncoderUpdate < ENCODER_DEBOUNCE =>
             (encoderPos' = encoderPos /\ sinceEncoderUpdate' >= sinceEncoderUpdate)
        /\ sinceEncoderUpdate' < sinceEncoderUpdate => encoderPos' # encoderPos
        /\ encoderPos' # encoderPos =>
             /\ sinceEncoderUpdate = ENCODER_DEBOUNCE
             /\ sinceEncoderUpdate' = 0
             /\ encoderPos' - encoderPos \in {-1, 1}
    ]_vars

\* a second click has just been accepted
C17_Witness ==
  /\ sinceEncoderUpdate = 0
  /\ clicks = 2
  /\ lastCLK = LOW

\* C18: a confirmed manual reset sets the range to MIN (line 350), encoderPos
\* to 0 (line 351) and lastEncoderPos to 0 (line 352) whatever they were, and
\* leaves angle, direction and status alone; from line 351 to the next
\* updateDetectionLimit the range is MIN and the clicks waiting to be applied
\* are the ones accepted after line 351, none from before.
C18_ManualReset ==
  /\ [](resetClicks.active =>
          /\ pc \in {"reset352", "waitRelease", "update102"}
          /\ detectionLimit = MIN_DETECTION_LIMIT
          /\ encoderPos = resetClicks.net
          /\ pc # "reset352" => lastEncoderPos = 0)
  /\ [][ /\ (pc = "readButton" /\ pc' = "reset351") => detectionLimit' = MIN_DETECTION_LIMIT
         /\ (pc = "reset351" /\ pc' # pc) =>
              (pc' = "reset352" /\ encoderPos' = 0 /\ resetClicks'.active)
         /\ (pc = "reset352" /\ pc' # pc) => (pc' = "waitRelease" /\ lastEncoderPos' = 0)
         /\ (pc \in {"readButton", "reset351", "reset352", "waitRelease"} /\ pc' # pc) =>
              UNCHANGED <<currentAngle, movingForward, isDetecting>>
       ]_vars

\* the reset has thrown away pending clicks and nothing is left to apply
C18_Witness ==
  /\ pc = "update102"
  /\ resetClicks.active
  /\ resetClicks.discarded # 0
  /\ resetClicks.net = 0
  /\ encoderPos = lastEncoderPos
  /\ detectionLimit = MIN_DETECTION_LIMIT
  /\ clicks > 0

\* C20: a call of readEncoder that finds CLK fallen (high at the previous
\* call, low now) ENCODER_DEBOUNCE ms or more after the last accepted click
\* changes encoderPos by exactly one.
C20_FallingEdgeCounts ==
  [][ (clkPin = HIGH /\ clkPin' = LOW /\ sinceEncoderUpdate >= ENCODER_DEBOUNCE)
        => encoderPos' - encoderPos \in {-1, 1}
    ]_vars

\* C19: if the control thread is outside the wait for the button's release
\* infinitely often and infinitely many iterations measure a distance above
\* the range, the angle is 0 infinitely often and 180 infinitely often.
C19_SweepNeverHalts ==
  ([]<>(pc # "waitRelease") /\ []<>(pc = "detect" /\ lastDistance > detectionLimit))
    => ([]<>(currentAngle = 0) /\ []<>(currentAngle = MAX_ANGLE))

\* back at 0 from 5 in a run that has both held for an object and been reset
C19_Witness ==
  /\ pc = "handleClient"
  /\ currentAngle = 0
  /\ sampleAt.angle = SCAN_STEP
  /\ everDetected
  /\ disturbed

=============================================================================
